---- MODULE Spec2Model ----
(***************************************************************************)
(* Model of the request-to-response pipeline of StaticServer               *)
(* (lib/static-server.js): path resolution, metadata probe, directory      *)
(* handling, cache validation, range negotiation and response emission,    *)
(* together with the stream events that follow the handler's return.       *)
(*                                                                         *)
(* Strings are sequences of atoms.  An atom is a substring that contains   *)
(* none of the characters "/", "." and "%" (a letter run such as "txt"),   *)
(* or one of the characters "/" and ".", or one percent escape.  String    *)
(* operations of the code (split, join, startsWith, normalize, extname)    *)
(* are computed on these sequences.                                        *)
(***************************************************************************)
EXTENDS Integers, Sequences, FiniteSets, TLC

(***************************************************************************)
(* Generic sequence helpers                                                *)
(***************************************************************************)
Last(s) == s[Len(s)]

Front(s) == SubSeq(s, 1, Len(s) - 1)

IsPrefix(p, s) == Len(p) <= Len(s) /\ SubSeq(s, 1, Len(p)) = p

RECURSIVE SplitOn(_, _)
\* String.prototype.split(sep): the pieces between the occurrences of sep.
SplitOn(s, sep) ==
    IF \A i \in 1..Len(s) : s[i] # sep
    THEN <<s>>
    ELSE LET i == CHOOSE k \in 1..Len(s) :
                      s[k] = sep /\ \A j \in 1..(k - 1) : s[j] # sep
         IN  <<SubSeq(s, 1, i - 1)>> \o SplitOn(SubSeq(s, i + 1, Len(s)), sep)

RECURSIVE JoinWith(_, _)
\* Array.prototype.join(sep)
JoinWith(parts, sep) ==
    IF Len(parts) = 0 THEN <<>>
    ELSE IF Len(parts) = 1 THEN parts[1]
    ELSE parts[1] \o <<sep>> \o JoinWith(Tail(parts), sep)

\* all sequences over S of length at most n
SeqsUpTo(S, n) == UNION {[1..k -> S] : k \in 0..n}

(***************************************************************************)
(* new URL(req.url, `http://${host}`).pathname for an origin-form request  *)
(* target (one that starts with "/").                                      *)
(***************************************************************************)
DotAtoms == {".", "%2E"}

IsSingleDot(seg) == Len(seg) = 1 /\ seg[1] \in DotAtoms

IsDoubleDot(seg) == Len(seg) = 2 /\ seg[1] \in DotAtoms /\ seg[2] \in DotAtoms

RECURSIVE UrlPathSegments(_, _)
\* The URL parser's path state: a double-dot segment (plain or written with
\* %2E) removes the last segment, a single-dot segment is dropped, any other
\* segment (the empty one included) is kept; a dot segment in last place
\* leaves an empty last segment.
UrlPathSegments(segs, acc) ==
    IF Len(segs) = 0 THEN acc
    ELSE LET seg    == Head(segs)
             isLast == Len(segs) = 1
             popped == IF Len(acc) = 0 THEN acc ELSE Front(acc)
             next   == IF IsDoubleDot(seg)
                       THEN IF isLast THEN Append(popped, <<>>) ELSE popped
                       ELSE IF IsSingleDot(seg)
                       THEN IF isLast THEN Append(acc, <<>>) ELSE acc
                       ELSE Append(acc, seg)
         IN  UrlPathSegments(Tail(segs), next)

RECURSIVE SkipSlashes(_)
SkipSlashes(s) ==
    IF Len(s) > 0 /\ Head(s) = "/" THEN SkipSlashes(Tail(s)) ELSE s

\* A host is refused when it is empty or holds a forbidden code point: the
\* escapes %2F ("/") and %ZZ (kept as "%") decode to one.
HostOk(h) == Len(h) > 0 /\ \A i \in 1..Len(h) : h[i] \notin {"%2F", "%ZZ"}

\* The outcome of a call: a returned value, or a thrown error.
Returned(v) == [ok |-> TRUE, v |-> v, err |-> ""]

Thrown(e) == [ok |-> FALSE, v |-> <<>>, err |-> e]

\* pathname of new URL(url, base); the constructor throws TypeError for a base
\* or a host it cannot parse.  A target that starts with "//" names its own
\* host (network-path reference); the path is what follows that host.
UrlPathname(url, hostHeader) ==
    IF hostHeader = "bad" THEN Thrown("TypeError")
    ELSE IF Len(url) >= 2 /\ url[1] = "/" /\ url[2] = "/"
    THEN LET rest  == SkipSlashes(url)
             parts == SplitOn(rest, "/")
             host  == parts[1]
             path  == IF Len(parts) = 1 THEN <<<<>>>> ELSE Tail(parts)
         IN  IF ~HostOk(host) THEN Thrown("TypeError")
             ELSE Returned(<<"/">> \o JoinWith(UrlPathSegments(path, <<>>), "/"))
    ELSE Returned(<<"/">> \o JoinWith(UrlPathSegments(SplitOn(Tail(url), "/"), <<>>), "/"))

(***************************************************************************)
(* decodeURIComponent                                                      *)
(***************************************************************************)
DecodeAtom(a) == IF a = "%2E" THEN "." ELSE IF a = "%2F" THEN "/" ELSE a

\* throws URIError when the text holds an invalid percent escape (%ZZ).
DecodeURIComponent(s) ==
    IF \E i \in 1..Len(s) : s[i] = "%ZZ" THEN Thrown("URIError")
    ELSE Returned([i \in 1..Len(s) |-> DecodeAtom(s[i])])

(***************************************************************************)
(* path.normalize / path.join (posix) for absolute paths                   *)
(***************************************************************************)
RECURSIVE NormalizeSegments(_, _)
\* normalizeString(path, allowAboveRoot = false): empty and "." segments are
\* skipped, ".." removes the last kept segment (nothing at the root).
NormalizeSegments(segs, acc) ==
    IF Len(segs) = 0 THEN acc
    ELSE LET seg  == Head(segs)
             next == IF seg = <<>> \/ seg = <<".">> THEN acc
                     ELSE IF seg = <<".", ".">>
                     THEN IF Len(acc) = 0 THEN acc ELSE Front(acc)
                     ELSE Append(acc, seg)
         IN  NormalizeSegments(Tail(segs), next)

\* path.normalize of an absolute path: a trailing separator is kept.
Normalize(p) ==
    LET body     == JoinWith(NormalizeSegments(SplitOn(p, "/"), <<>>), "/")
        trailing == Last(p) = "/"
    IN  IF Len(body) = 0 THEN <<"/">>
        ELSE <<"/">> \o body \o (IF trailing THEN <<"/">> ELSE <<>>)

\* path.join(a, b) with both non-empty
PathJoin(a, b) == Normalize(a \o <<"/">> \o b)

\* path.basename / path.dirname of a normalized absolute path without a
\* trailing separator
LastSlash(p) == CHOOSE i \in 1..Len(p) : p[i] = "/" /\ \A j \in (i + 1)..Len(p) : p[j] # "/"

Basename(p) == SubSeq(p, LastSlash(p) + 1, Len(p))

Dirname(p) == IF LastSlash(p) = 1 THEN <<"/">> ELSE SubSeq(p, 1, LastSlash(p) - 1)

StripTrailingSlash(p) == IF Len(p) > 1 /\ Last(p) = "/" THEN Front(p) ELSE p

\* String.prototype.toLowerCase on the atoms in use
ToLowerCase(s) ==
    [i \in 1..Len(s) |-> IF s[i] = "TXT" THEN "txt" ELSE IF s[i] = "HTML" THEN "html" ELSE s[i]]

\* path.extname: from the last "." of the last segment, "" when there is none
\* or when the segment starts with its only ".".
ExtName(p) ==
    LET base == Basename(StripTrailingSlash(p))
        dots == {i \in 1..Len(base) : base[i] = "."}
    IN  IF dots = {} THEN <<>>
        ELSE LET d == CHOOSE i \in dots : \A j \in dots : j <= i
             IN  IF d = 1 THEN <<>> ELSE SubSeq(base, d, Len(base))

(***************************************************************************)
(* Startup configuration                                                   *)
(***************************************************************************)
\* config.root: the served directory "/p"
Root == <<"/", "p">>

\* config.index: "index.html"
IndexName == <<"index", ".", "html">>

\* An absent header (undefined) is the empty sequence, a present one a
\* sequence holding its value.
Absent == <<>>

Some(v) == <<v>>

(***************************************************************************)
(* getRequestPath                                                          *)
(***************************************************************************)
\* String.prototype.startsWith
StartsWith(s, prefix) == IsPrefix(prefix, s)

\* The containment test of getRequestPath on the normalized path.
InsideRoot(requestPath) == StartsWith(requestPath, Root)

\* [tag |-> "path", path |-> p], [tag |-> "null"] when the request is refused,
\* [tag |-> "throw"] when new URL or decodeURIComponent throws.
GetRequestPath(url, hostHeader) ==
    IF Len(url) = 0 \/ hostHeader = "missing"
    THEN [tag |-> "null", path |-> <<>>, err |-> ""]
    ELSE LET reqUrl == UrlPathname(url, hostHeader)
         IN  IF ~reqUrl.ok THEN [tag |-> "throw", path |-> <<>>, err |-> reqUrl.err]
             ELSE LET decoded == DecodeURIComponent(reqUrl.v)
                  IN  IF ~decoded.ok
                      THEN [tag |-> "throw", path |-> <<>>, err |-> decoded.err]
                      ELSE LET requestPath == Normalize(PathJoin(Root, decoded.v))
                           IN  IF InsideRoot(requestPath)
                               THEN [tag |-> "path", path |-> requestPath, err |-> ""]
                               ELSE [tag |-> "null", path |-> <<>>, err |-> ""]

(***************************************************************************)
(* JavaScript numbers: an integer or NaN                                   *)
(***************************************************************************)
Num(n) == [nan |-> FALSE, n |-> n]

NaN == [nan |-> TRUE, n |-> 0]

IsNaN(x) == x.nan

JsSub(a, b) == IF a.nan \/ b.nan THEN NaN ELSE Num(a.n - b.n)

JsAdd(a, b) == IF a.nan \/ b.nan THEN NaN ELSE Num(a.n + b.n)

\* a >= b: false when either side is NaN
JsGte(a, b) == ~a.nan /\ ~b.nan /\ a.n >= b.n

Digits == {"0", "1", "2", "3", "4", "5", "6", "7", "8", "9"}

DigitValue(d) ==
    CASE d = "0" -> 0 [] d = "1" -> 1 [] d = "2" -> 2 [] d = "3" -> 3 [] d = "4" -> 4
      [] d = "5" -> 5 [] d = "6" -> 6 [] d = "7" -> 7 [] d = "8" -> 8 [] d = "9" -> 9

RECURSIVE DigitRun(_, _)
\* the value of the leading run of digits of s, continuing from acc
DigitRun(s, acc) ==
    IF Len(s) = 0 \/ Head(s) \notin Digits THEN acc
    ELSE DigitRun(Tail(s), 10 * acc + DigitValue(Head(s)))

\* parseInt(parts[i], 10): NaN for a missing element (undefined) and for text
\* that does not start with a digit; otherwise the leading digits' value.
ParseInt(parts, i) ==
    IF i > Len(parts) THEN NaN
    ELSE IF Len(parts[i]) = 0 \/ parts[i][1] \notin Digits THEN NaN
    ELSE Num(DigitRun(parts[i], 0))

(***************************************************************************)
(* parseRange                                                              *)
(***************************************************************************)
\* range.replace(/bytes=/, ''): the first occurrence of the unit is removed
StripUnit(range) ==
    IF \A i \in 1..Len(range) : range[i] # "bytes=" THEN range
    ELSE LET i == CHOOSE k \in 1..Len(range) :
                      range[k] = "bytes=" /\ \A j \in 1..(k - 1) : range[j] # "bytes="
         IN  SubSeq(range, 1, i - 1) \o SubSeq(range, i + 1, Len(range))

\* parseRange with the suffix form one byte off (start = size - end - 1)
ParseRangeSuffixOffByOne(range, size) ==
    LET parts  == SplitOn(StripUnit(range), "-")
        start0 == ParseInt(parts, 1)
        end0   == ParseInt(parts, 2)
        start  == IF IsNaN(start0) THEN JsSub(Num(size - 1), end0) ELSE start0
        end    == IF IsNaN(start0) THEN Num(size - 1)
                  ELSE IF IsNaN(end0) THEN Num(size - 1)
                  ELSE end0
    IN  IF JsGte(start, Num(size)) \/ JsGte(end, Num(size))
        THEN [null |-> TRUE, start |-> NaN, end |-> NaN]
        ELSE [null |-> FALSE, start |-> start, end |-> end]

\* [null |-> TRUE] or [null |-> FALSE, start |-> s, end |-> e]
ParseRange(range, size) ==
    LET parts  == SplitOn(StripUnit(range), "-")
        start0 == ParseInt(parts, 1)
        end0   == ParseInt(parts, 2)
        start  == IF IsNaN(start0) THEN JsSub(Num(size), end0) ELSE start0
        end    == IF IsNaN(start0) THEN Num(size - 1)
                  ELSE IF IsNaN(end0) THEN Num(size - 1)
                  ELSE end0
    IN  IF JsGte(start, Num(size)) \/ JsGte(end, Num(size))
        THEN [null |-> TRUE, start |-> NaN, end |-> NaN]
        ELSE [null |-> FALSE, start |-> start, end |-> end]

(***************************************************************************)
(* shouldCompress, mime.getType, Cache-Control                             *)
(***************************************************************************)
CompressibleExtensions ==
    { <<".", e>> : e \in {"html", "htm", "css", "js", "json", "xml", "txt", "svg", "webmanifest"} }

\* acceptEncoding?.includes('gzip')
IncludesGzip(acceptEncoding) ==
    /\ acceptEncoding # Absent
    /\ \E i \in 1..Len(acceptEncoding[1]) : acceptEncoding[1][i] = "gzip"

ShouldCompress(acceptEncoding, filePath) ==
    IF ~IncludesGzip(acceptEncoding) THEN FALSE
    ELSE ToLowerCase(ExtName(filePath)) \in CompressibleExtensions

\* mime.getType(filePath) || 'application/octet-stream'
MimeType(filePath) ==
    LET ext == ToLowerCase(ExtName(filePath))
    IN  IF ext = <<".", "html">> THEN "text/html"
        ELSE IF ext = <<".", "txt">> THEN "text/plain"
        ELSE IF ext = <<".", "png">> THEN "image/png"
        ELSE "application/octet-stream"

CacheControl(filePath) ==
    IF ToLowerCase(ExtName(filePath)) = <<".", "html">>
    THEN "no-cache, must-revalidate"
    ELSE "public, max-age=31536000, immutable"

(***************************************************************************)
(* The file system the server reads                                        *)
(***************************************************************************)
\* the threshold of getETag: 1024 * 1024
HashLimit == 1048576

PathA == Root \o <<"/", "a", ".", "txt">>

PathP == Root \o <<"/", "p">>

PathB == Root \o <<"/", "b", ".", "png">>

PathU == Root \o <<"/", "u", ".", "txt">>

PathW == Root \o <<"/", "w">>

PathWIndex == PathW \o <<"/">> \o IndexName

PathD == Root \o <<"/", "d">>

PathN == Root \o <<"/", "n">>

\* a file name that holds HTML markup: x</a><a href="y">z
MarkupName == <<"x", "</a>", "<a href=\"", "y", "\">", "z">>

PathE == Root \o <<"/", "e">>

PathEFile == PathE \o <<"/", "a", ".", "txt">>

PathX == PathE \o <<"/">> \o MarkupName

PathO == Root \o <<"/", "o">>

\* a directory next to the root whose name starts with the root's name
Sibling == <<"/", "p", "p">>

SiblingFile == Sibling \o <<"/", "p">>

FsPaths == {<<"/">>, Root, PathA, PathP, PathB, PathU, PathW, PathWIndex, PathD,
            PathN, PathE, PathEFile, PathX, PathO, Sibling, SiblingFile}

AbsentNode == [kind |-> "absent", size |-> 0, mtime |-> 0, content |-> "", mode |-> ""]

DirNode(mode) == [kind |-> "dir", size |-> 0, mtime |-> 0, content |-> "", mode |-> mode]

FileNode(size, mtime, content, mode) ==
    [kind |-> "file", size |-> size, mtime |-> mtime, content |-> content, mode |-> mode]

\* a.txt: 3 bytes; p: empty; b.png: 1 MiB; u.txt: not readable by the server;
\* w: a directory with an index file; d: a directory that can be searched but
\* not listed; n: a directory that can be neither searched nor listed; e: a
\* directory of two files without an index file; o: an empty directory.
\* mtime is in epoch milliseconds.
InitFs ==
    [p \in FsPaths |->
        CASE p = PathA       -> FileNode(3, 5000, "A0", "r")
          [] p = PathP       -> FileNode(0, 5000, "P0", "r")
          [] p = PathB       -> FileNode(HashLimit, 5000, "B0", "r")
          [] p = PathU       -> FileNode(2, 5000, "U0", "-")
          [] p = PathWIndex  -> FileNode(2, 5000, "I0", "r")
          [] p = SiblingFile -> FileNode(2, 5000, "S0", "r")
          [] p = PathEFile   -> FileNode(2, 5000, "E0", "r")
          [] p = PathX       -> FileNode(2, 5000, "X0", "r")
          [] p = PathD       -> DirNode("x")
          [] p = PathN       -> DirNode("-")
          [] OTHER           -> DirNode("rx")]

NodeAt(f, p) == IF p \in FsPaths THEN f[p] ELSE AbsentNode

RECURSIVE WalkStatus(_, _)
\* Path lookup up to directory d: "ok" when every component on the way is a
\* directory that can be searched, "ENOENT" when one is missing, "ENOTDIR"
\* when one is a file, "EACCES" when one cannot be searched.
WalkStatus(f, d) ==
    IF d = <<"/">> THEN "ok"
    ELSE LET up == WalkStatus(f, Dirname(d))
         IN  IF up # "ok" THEN up
             ELSE IF NodeAt(f, d).kind = "dir"
             THEN IF NodeAt(f, d).mode \in {"rx", "x"} THEN "ok" ELSE "EACCES"
             ELSE IF NodeAt(f, d).kind = "file" THEN "ENOTDIR"
             ELSE "ENOENT"

\* fsp.stat(path): [code |-> "ok", node |-> n] or an error code.  A path that
\* ends with a separator must name a directory.
Stat(f, path) ==
    LET p    == StripTrailingSlash(path)
        walk == IF p = <<"/">> THEN "ok" ELSE WalkStatus(f, Dirname(p))
        node == NodeAt(f, p)
    IN  IF walk # "ok" THEN [code |-> walk, node |-> AbsentNode]
        ELSE IF node.kind = "absent" THEN [code |-> "ENOENT", node |-> AbsentNode]
        ELSE IF node.kind = "file" /\ p # path THEN [code |-> "ENOTDIR", node |-> AbsentNode]
        ELSE [code |-> "ok", node |-> node]

\* opening a file for reading (fsp.readFile, fs.createReadStream)
OpenFile(f, path) ==
    LET st == Stat(f, path)
    IN  IF st.code # "ok" THEN st
        ELSE IF st.node.kind = "dir" THEN [code |-> "EISDIR", node |-> AbsentNode]
        ELSE IF st.node.mode # "r" THEN [code |-> "EACCES", node |-> AbsentNode]
        ELSE st

\* fsp.readdir(path): the names of the directory's entries
Readdir(f, path) ==
    LET st == Stat(f, path)
        p  == StripTrailingSlash(path)
    IN  IF st.code # "ok" THEN [code |-> st.code, names |-> {}]
        ELSE IF st.node.kind # "dir" THEN [code |-> "ENOTDIR", names |-> {}]
        ELSE IF st.node.mode # "rx" THEN [code |-> "EACCES", names |-> {}]
        ELSE [code |-> "ok",
              names |-> {Basename(c) : c \in {c \in FsPaths \ {<<"/">>} :
                              Dirname(c) = p /\ f[c].kind # "absent"}}]

(***************************************************************************)
(* getETag, Last-Modified                                                  *)
(***************************************************************************)
\* crypto.createHash('md5').update(bytes).digest('hex'): one digest per input
Md5(bytes) == <<"md5">> \o bytes

\* the digest of a file's content
ContentETag(content) == Md5(<<content>>)

\* the digest of `${stats.size}-${stats.mtime.getTime()}`
StatsETag(size, mtime) == Md5(<<ToString(size), "-", ToString(mtime)>>)

\* stats.mtime.toUTCString(): the time to the second
ToUTCString(mtime) == <<"date", ToString(mtime \div 1000)>>

(***************************************************************************)
(* The response object and the streams                                     *)
(***************************************************************************)
\* String(x) of a JavaScript number
JsString(x) == IF x.nan THEN "NaN" ELSE ToString(x.n)

\* heads: the heads written, in order; headCalls: the calls of res.writeHead,
\* the throwing ones included; closed: the client's connection is gone.
NewResponse == [heads |-> <<>>, headCalls |-> 0, body |-> <<>>, ended |-> FALSE, closed |-> FALSE]

Chunk(kind, text, lo, hi, items) ==
    [kind |-> kind, text |-> text, lo |-> lo, hi |-> hi, items |-> items]

TextChunk(message) == Chunk("text", message, 0, 0, {})

HeadersSent(rs) == Len(rs.heads) > 0

\* res.writeHead(status, headers): the head holds the headers as they are at
\* the call.
WriteHead(rs, status, headers) ==
    [rs EXCEPT !.heads = Append(@, [status |-> status, headers |-> headers]),
               !.headCalls = @ + 1]

\* res.end(): an empty body
EndResponse(rs) == [rs EXCEPT !.ended = TRUE]

\* res.end(data)
EndWith(rs, chunk) == [rs EXCEPT !.body = Append(@, chunk), !.ended = TRUE]

ErrorHeaders == "Content-Type" :> "text/plain"

\* sendErrorResponse on a response whose head is not yet written
SendErrorResponse(rs, statusCode, message) ==
    EndWith(WriteHead(rs, statusCode, ErrorHeaders), TextChunk(message))

NoStream == [state |-> "none", path |-> <<>>, start |-> 0, limit |-> 0, pos |-> 0,
             gzip |-> "none", piped |-> FALSE, node |-> AbsentNode]

\* fs.createReadStream(path, {start, end}) piped to the response, through
\* zlib.createGzip() when compress; limit is one past the last byte to read,
\* -1 for "to the end of the file".
NewStream(path, start, limit, compress) ==
    [state |-> "opening", path |-> path, start |-> start, limit |-> limit, pos |-> start,
     gzip |-> IF compress THEN "open" ELSE "none", piped |-> TRUE, node |-> AbsentNode]

\* The check of the ReadStream constructor on {start, end}: both integers
\* >= 0 and start <= end, otherwise it throws ERR_OUT_OF_RANGE.
StreamOptionsValid(start, end) ==
    /\ ~start.nan /\ ~end.nan
    /\ start.n >= 0 /\ end.n >= 0
    /\ start.n <= end.n

(***************************************************************************)
(* getResponseHeaders, sendRangeResponse, sendFileResponse and the catch   *)
(* block of handleRequest, as functions of the request rq, the response rs *)
(* and the handler's locals.  Each gives the response and stream after the *)
(* call and whether the call threw.                                        *)
(***************************************************************************)
ResponseHeaders(filePath, etag, stats) ==
    ("Content-Type" :> MimeType(filePath)) @@ ("ETag" :> etag)
    @@ ("Last-Modified" :> ToUTCString(stats.mtime))
    @@ ("Cache-Control" :> CacheControl(filePath)) @@ ("Accept-Ranges" :> "bytes")

\* the cache test with both validators required
IsCachedBoth(rq, etag, stats) ==
    rq.inm = Some(etag) /\ rq.ims = Some(ToUTCString(stats.mtime))

IsCached(rq, etag, stats) ==
    rq.inm = Some(etag) \/ rq.ims = Some(ToUTCString(stats.mtime))

ContentRange(start, end, size) ==
    <<"bytes ", JsString(start), "-", JsString(end), "/", ToString(size)>>

ContentLength(start, end) == JsString(JsAdd(JsSub(end, start), Num(1)))

Outcome(rs, st, threw, parsed) == [res |-> rs, stream |-> st, threw |-> threw, parsed |-> parsed]

SendRangeResponse(rq, rs, filePath, headers, stats) ==
    LET rangeVal == ParseRange(rq.range[1], stats.size)
    IN  IF rangeVal.null
        THEN Outcome(SendErrorResponse(rs, 416, "Range Not Satisfiable"), NoStream, FALSE, TRUE)
        ELSE LET start   == rangeVal.start
                 end     == rangeVal.end
                 ranged  == ("Content-Range" :> ContentRange(start, end, stats.size))
                            @@ ("Content-Length" :> ContentLength(start, end)) @@ headers
                 written == WriteHead(rs, 206, ranged)
             IN  IF ~StreamOptionsValid(start, end)
                 THEN Outcome(written, NoStream, TRUE, TRUE)
                 ELSE Outcome(written,
                              NewStream(filePath, start.n, end.n + 1,
                                        ShouldCompress(rq.ae, filePath)),
                              FALSE, TRUE)

\* sendFileResponse with Content-Length set before the compression test
SendFileResponseLengthFirst(rq, rs, filePath, headers, stats) ==
    LET sized == ("Content-Length" :> ToString(stats.size)) @@ headers
    IN  IF ShouldCompress(rq.ae, filePath)
        THEN Outcome(WriteHead(rs, 200, ("Content-Encoding" :> "gzip") @@ sized),
                     NewStream(filePath, 0, -1, TRUE), FALSE, FALSE)
        ELSE Outcome(WriteHead(rs, 200, sized), NewStream(filePath, 0, -1, FALSE), FALSE, FALSE)

SendFileResponse(rq, rs, filePath, headers, stats) ==
    IF ShouldCompress(rq.ae, filePath)
    THEN Outcome(WriteHead(rs, 200, ("Content-Encoding" :> "gzip") @@ headers),
                 NewStream(filePath, 0, -1, TRUE), FALSE, FALSE)
    ELSE Outcome(WriteHead(rs, 200, ("Content-Length" :> ToString(stats.size)) @@ headers),
                 NewStream(filePath, 0, -1, FALSE), FALSE, FALSE)

\* if (req.headers.range): a present, non-empty header
HasRange(rq) == rq.range # Absent /\ Len(rq.range[1]) > 0

\* handleRequest from the return of getResponseHeaders to the end of the try
\* block
Respond(rq, rs, filePath, etag, stats) ==
    LET headers == ResponseHeaders(filePath, etag, stats)
    IN  IF IsCached(rq, etag, stats)
        THEN Outcome(EndResponse(WriteHead(rs, 304, <<>>)), NoStream, FALSE, FALSE)
        ELSE IF HasRange(rq)
        THEN SendRangeResponse(rq, rs, filePath, headers, stats)
        ELSE SendFileResponse(rq, rs, filePath, headers, stats)

\* a catch block that reports every failure as "not found"
CatchBlockNotFound(rs) ==
    [res |-> SendErrorResponse(rs, 404, "404 Not Found"), pc |-> "returned"]

\* The catch block: sendErrorResponse(res, 500, ...).  res.writeHead throws
\* ERR_HTTP_HEADERS_SENT when a head is already written; the call is counted
\* and the handler's promise is rejected.
CatchBlock(rs) ==
    IF HeadersSent(rs)
    THEN [res |-> [rs EXCEPT !.headCalls = @ + 1], pc |-> "rejected"]
    ELSE [res |-> SendErrorResponse(rs, 500, "500 Internal Server Error"), pc |-> "returned"]

(***************************************************************************)
(* The requests the clients send                                           *)
(***************************************************************************)
Requests == {"r1", "r2"}

Request(url, host, range, inm, ims, ae) ==
    [sent |-> TRUE, url |-> url, host |-> host, range |-> range, inm |-> inm, ims |-> ims,
     ae |-> ae]

NoRequest ==
    [sent |-> FALSE, url |-> <<>>, host |-> "ok", range |-> Absent, inm |-> Absent,
     ims |-> Absent, ae |-> Absent]

\* bound: the atoms of a generated request target after its leading "/"
MaxUrlLen == 5

\* bound: the atoms of a generated Range header after "bytes="
MaxRangeLen == 3

UrlAtoms == {"/", ".", "%2E", "%2F", "p"}

GenUrls == {<<"/">> \o u : u \in SeqsUpTo(UrlAtoms, MaxUrlLen)}

RangeAtoms == {"0", "1", "3", "x", "-"}

RangeHeaders ==
    {Absent, Some(<<>>)} \cup {Some(<<"bytes=">> \o b) : b \in SeqsUpTo(RangeAtoms, MaxRangeLen)}

AcceptEncodings == {Absent, Some(<<"gzip">>), Some(<<"br">>)}

\* Accept-Encoding: gzip;q=0 (gzip is not acceptable), written as a coding
\* and its weight
RefusesGzip == Some(<<"gzip", ";q=0">>)

UrlA == <<"/", "a", ".", "txt">>

UrlP == <<"/", "p">>

UrlB == <<"/", "b", ".", "png">>

UrlU == <<"/", "u", ".", "txt">>

UrlW == <<"/", "w">>

FileUrls == {UrlA, UrlP, UrlB, UrlW}

\* the fingerprint a client holds of the file a target names, taken from the
\* initial file system
CachedETag(url) ==
    LET p    == IF url = UrlW THEN PathWIndex ELSE Root \o url
        node == InitFs[p]
    IN  IF node.size < HashLimit THEN ContentETag(node.content)
        ELSE StatsETag(node.size, node.mtime)

StaleETag == ContentETag("old")

FreshDate == ToUTCString(5000)

StaleDate == ToUTCString(1000)

\* the If-None-Match and If-Modified-Since headers a client sends for a
\* target: none, a matching one of either kind alone, two that do not match
Conditionals(url) ==
    { [inm |-> Absent, ims |-> Absent],
      [inm |-> Some(CachedETag(url)), ims |-> Absent],
      [inm |-> Absent, ims |-> Some(FreshDate)],
      [inm |-> Some(StaleETag), ims |-> Some(StaleDate)] }

\* targets and hosts the URL handling rejects or fails on
MalformedRequests ==
    { Request(<<>>, "ok", Absent, Absent, Absent, Absent),
      Request(UrlP, "missing", Absent, Absent, Absent, Absent),
      Request(UrlP, "bad", Absent, Absent, Absent, Absent),
      Request(<<"/", "%ZZ">>, "ok", Absent, Absent, Absent, Absent),
      Request(<<"/", "/", "%ZZ", "/", "p">>, "ok", Absent, Absent, Absent, Absent) }

\* requests for the file the server cannot read
UnreadableRequests ==
    { Request(UrlU, "ok", range, c.inm, c.ims, Some(<<"gzip">>)) :
        range \in {Absent, Some(<<"bytes=", "0", "-", "1">>)}, c \in Conditionals(UrlU) }

\* requests that name gzip as not acceptable
EncodingRequests ==
    { Request(u, "ok", range, Absent, Absent, RefusesGzip) :
        u \in {UrlA, UrlB}, range \in {Absent, Some(<<"bytes=", "0", "-", "1">>)} }

\* requests for the other directories: not searchable, without an index
\* file, empty
DirectoryRequests ==
    { Request(<<"/", d>>, "ok", Absent, Absent, Absent, Some(<<"gzip">>)) : d \in {"n", "e", "o"} }

\* the requests sent two at a time
ConcRequests ==
    { Request(UrlA, "ok", Absent, Absent, Absent, Absent),
      Request(UrlA, "ok", Some(<<"bytes=", "0", "-", "1">>), Absent, Absent, Some(<<"gzip">>)),
      Request(UrlA, "ok", Some(<<"bytes=", "1", "-", "0">>), Absent, Absent, Absent),
      Request(UrlW, "ok", Absent, Some(CachedETag(UrlW)), Absent, Absent),
      Request(<<"/">>, "ok", Absent, Absent, Absent, Absent),
      Request(<<"/", "d">>, "ok", Absent, Absent, Absent, Absent),
      Request(<<"/", "%ZZ">>, "ok", Absent, Absent, Absent, Absent),
      Request(<<"/", ".", ".", "%2F", "p", "p">>, "ok", Absent, Absent, Absent, Absent) }

UrlWSlash == UrlW \o <<"/">>

UrlWIndex == UrlWSlash \o IndexName

\* Range headers of each form: none, both bounds, prefix, suffix, out of
\* bounds, reversed
IndexRanges ==
    {Absent} \cup {Some(<<"bytes=">> \o b) :
                      b \in {<<"0", "-", "1">>, <<"1", "-">>, <<"-", "1">>, <<"3">>, <<"1", "-", "0">>}}

\* a request for the directory w and the same request made for its index
\* file, in flight together
IndexPairs(rq) ==
    \E u \in {UrlW, UrlWSlash}, range \in IndexRanges, ae \in AcceptEncodings :
        \E c \in Conditionals(UrlW) :
            rq = [r \in Requests |->
                    Request(IF r = "r1" THEN u ELSE UrlWIndex, "ok", range, c.inm, c.ims, ae)]

\* the requests sent two at a time while the served files are written
RaceRequests ==
    ConcRequests \cup
    { Request(UrlB, "ok", Absent, Absent, Absent, Absent),
      Request(UrlA, "ok", Absent, Some(CachedETag(UrlA)), Absent, Absent) }

RaceWorkload(rq) ==
    \E a \in RaceRequests, b \in RaceRequests :
        rq = [r \in Requests |-> IF r = "r1" THEN a ELSE b]

\* one request, the other client silent
Single(q) == [r \in Requests |-> IF r = "r1" THEN q ELSE NoRequest]

\* The requests of a run are one of:
\*  - any generated target, without conditional or Range headers;
\*  - a malformed request, one for the unreadable file, one that refuses
\*    gzip, or one for a directory outside the generated targets;
\*  - any combination of Range, conditional and Accept-Encoding headers on a
\*    file of the root;
\*  - two of ConcRequests, in flight together;
\*  - a directory request and the request for its index file, in flight
\*    together.
PairWorkload(rq) ==
    \E a \in ConcRequests, b \in ConcRequests :
        rq = [r \in Requests |-> IF r = "r1" THEN a ELSE b]

Workload(rq) ==
    \/ \E u \in GenUrls :
          rq = Single(Request(u, "ok", Absent, Absent, Absent, Some(<<"gzip">>)))
    \/ \E q \in MalformedRequests \cup UnreadableRequests \cup EncodingRequests
                  \cup DirectoryRequests : rq = Single(q)
    \/ \E u \in FileUrls, range \in RangeHeaders, ae \in AcceptEncodings :
          \E c \in Conditionals(u) : rq = Single(Request(u, "ok", range, c.inm, c.ims, ae))
    \/ PairWorkload(rq)
    \/ IndexPairs(rq)

(***************************************************************************)
(* State                                                                   *)
(***************************************************************************)
VARIABLES
    fs,      \* the file system: path -> node
    alive,   \* the server process runs
    req,     \* the request each client sends (never changes)
    hs,      \* per request: the handler's position and locals
    res,     \* per request: the response object
    stream   \* per request: the read stream and gzip stage piped to the response

vars == <<fs, alive, req, hs, res, stream>>

\* pc: "wire" (sent, not yet handled), "stat", "statIndex", "readdir", "etag"
\* (the awaits of handleRequest), "returned", "rejected" (the handler's promise
\* rejected), "failed" (the rejection was reported), "none" (no request).
\* accessed: the paths given to a file-system call; etag: the fingerprint
\* getETag returned; parsed: parseRange ran.
NewHandler(pc) ==
    [pc |-> pc, requestPath |-> <<>>, stats |-> AbsentNode, accessed |-> {}, etag |-> Absent,
     parsed |-> FALSE]

\* the server listens and the requests are on their way
Started ==
    /\ fs = InitFs
    /\ alive = TRUE
    /\ hs = [r \in Requests |-> NewHandler(IF req[r].sent THEN "wire" ELSE "none")]
    /\ res = [r \in Requests |-> NewResponse]
    /\ stream = [r \in Requests |-> NoStream]

Init == Workload(req) /\ Started

\* two requests in flight together
InitPairs == PairWorkload(req) /\ Started

InitRace == RaceWorkload(req) /\ Started

(***************************************************************************)
(* handleRequest, one action per stretch between two awaits                *)
(***************************************************************************)
\* the handler of r ends its try block, or its catch block, with outcome o
Settle(r, o) ==
    /\ res' = [res EXCEPT ![r] = o.res]
    /\ hs' = [hs EXCEPT ![r].pc = o.pc]

\* ... after a file-system call on path
SettleAfter(r, path, o) ==
    /\ res' = [res EXCEPT ![r] = o.res]
    /\ hs' = [hs EXCEPT ![r].pc = o.pc, ![r].accessed = @ \cup {path}]

Replied(rs) == [res |-> rs, pc |-> "returned"]

\* The request reaches the server: getRequestPath, then 403, or the catch
\* block, or the call of fsp.stat.
Arrive(r) ==
    /\ alive
    /\ hs[r].pc = "wire"
    /\ LET rp == GetRequestPath(req[r].url, req[r].host)
       IN  CASE rp.tag = "throw" -> Settle(r, CatchBlock(res[r]))
             [] rp.tag = "null"  -> Settle(r, Replied(SendErrorResponse(res[r], 403, "403 Forbidden")))
             [] OTHER -> /\ hs' = [hs EXCEPT ![r].pc = "stat", ![r].requestPath = rp.path]
                         /\ UNCHANGED res
    /\ UNCHANGED <<fs, alive, req, stream>>

\* getPathStats(requestPath) completes.
StatDone(r) ==
    /\ alive
    /\ hs[r].pc = "stat"
    /\ LET path == hs[r].requestPath
           st   == Stat(fs, path)
       IN  CASE st.code = "ENOENT" ->
                    SettleAfter(r, path, Replied(SendErrorResponse(res[r], 404, "404 Not Found")))
             [] st.code \notin {"ok", "ENOENT"} -> SettleAfter(r, path, CatchBlock(res[r]))
             [] OTHER ->
                    /\ hs' = [hs EXCEPT ![r].pc = IF st.node.kind = "dir" THEN "statIndex" ELSE "etag",
                                        ![r].stats = st.node,
                                        ![r].accessed = @ \cup {path}]
                    /\ UNCHANGED res
    /\ UNCHANGED <<fs, alive, req, stream>>

\* the directory itself taken for its index file
IndexFilePathSelf(requestPath) == requestPath

IndexFilePath(requestPath) == PathJoin(requestPath, IndexName)

\* getPathStats(indexFilePath) completes.
StatIndexDone(r) ==
    /\ alive
    /\ hs[r].pc = "statIndex"
    /\ LET path == IndexFilePath(hs[r].requestPath)
           st   == Stat(fs, path)
       IN  CASE st.code = "ENOENT" ->
                    /\ hs' = [hs EXCEPT ![r].pc = "readdir", ![r].accessed = @ \cup {path}]
                    /\ UNCHANGED res
             [] st.code \notin {"ok", "ENOENT"} -> SettleAfter(r, path, CatchBlock(res[r]))
             [] OTHER ->
                    /\ hs' = [hs EXCEPT ![r].pc = "etag", ![r].requestPath = path,
                                        ![r].stats = st.node, ![r].accessed = @ \cup {path}]
                    /\ UNCHANGED res
    /\ UNCHANGED <<fs, alive, req, stream>>

\* posix.join(reqUrl.pathname, file)
Href(pathname, file) == PathJoin(pathname, file)

\* `<li><a href="${path.posix.join(reqUrl.pathname, file)}">${file}</a></li>`:
\* the text of one list item, the name put into it as it is
ListItem(pathname, file) ==
    <<"<li>", "<a href=\"">> \o Href(pathname, file) \o <<"\">">> \o file \o <<"</a>", "</li>">>

\* generateDirectoryIndex: the page, one list item per entry
DirectoryIndex(pathname, names) ==
    Chunk("html", JoinWith(<<DecodeURIComponent(pathname).v>>, ""), 0, 0,
          {ListItem(pathname, n) : n \in names})

\* fsp.readdir(requestPath) completes: the listing, or 403 when it failed.
ReaddirDone(r) ==
    /\ alive
    /\ hs[r].pc = "readdir"
    /\ LET path     == hs[r].requestPath
           rd       == Readdir(fs, path)
           pathname == UrlPathname(req[r].url, req[r].host).v
       IN  IF rd.code = "ok"
           THEN SettleAfter(r, path,
                    Replied(EndWith(WriteHead(res[r], 200, "Content-Type" :> "text/html"),
                                    DirectoryIndex(pathname, rd.names))))
           ELSE SettleAfter(r, path, Replied(SendErrorResponse(res[r], 403, "403 Forbidden")))
    /\ UNCHANGED <<fs, alive, req, stream>>

\* getETag with the digest of size and modification time for every file
GetETagOfStats(f, filePath, stats) == Returned(StatsETag(stats.size, stats.mtime))

\* getETag: the digest of the content read now for a file under 1 MiB, of the
\* size and modification time of the stat otherwise.
GetETag(f, filePath, stats) ==
    IF stats.size < HashLimit
    THEN LET rd == OpenFile(f, filePath)
         IN  IF rd.code = "ok" THEN Returned(ContentETag(rd.node.content)) ELSE Thrown(rd.code)
    ELSE Returned(StatsETag(stats.size, stats.mtime))

\* getResponseHeaders completes; the rest of the try block runs: 304, or
\* sendRangeResponse, or sendFileResponse.
ETagDone(r) ==
    /\ alive
    /\ hs[r].pc = "etag"
    /\ LET path == hs[r].requestPath
           etag == GetETag(fs, path, hs[r].stats)
           reads == IF hs[r].stats.size < HashLimit THEN {path} ELSE {}
       IN  IF ~etag.ok
           THEN /\ SettleAfter(r, path, CatchBlock(res[r]))
                /\ UNCHANGED stream
           ELSE LET o    == Respond(req[r], res[r], path, etag.v, hs[r].stats)
                    done == IF o.threw THEN CatchBlock(o.res) ELSE Replied(o.res)
                IN  /\ res' = [res EXCEPT ![r] = done.res]
                    /\ hs' = [hs EXCEPT ![r].pc = done.pc, ![r].parsed = o.parsed,
                                        ![r].etag = Some(etag.v),
                                        ![r].accessed = @ \cup reads]
                    /\ stream' = [stream EXCEPT ![r] = o.stream]
    /\ UNCHANGED <<fs, alive, req>>

\* what the runtime does with a rejected promise nobody handles: it ends the
\* process ("exit", the default since Node 15) or only warns ("warn")
RejectionModes == {"exit", "warn"}

\* The rejected promise of handleRequest is reported.
UnhandledRejection(r) ==
    /\ alive
    /\ hs[r].pc = "rejected"
    /\ \E mode \in RejectionModes : alive' = (mode = "warn")
    /\ hs' = [hs EXCEPT ![r].pc = "failed"]
    /\ UNCHANGED <<fs, req, res, stream>>

(***************************************************************************)
(* Stream events after the handler has returned                            *)
(***************************************************************************)
\* the buffer of fs.ReadStream: 64 KiB
HighWaterMark == 64 * 1024

Min(a, b) == IF a <= b THEN a ELSE b

\* one past the last byte the stream reads
ReadLimit(st) == IF st.limit = -1 THEN st.node.size ELSE Min(st.limit, st.node.size)

\* data still moves: into the response, or into the gzip stage
Flows(st) == st.piped \/ st.gzip = "open"

\* The stream opens its file.  A failure is an 'error' event; the stream has
\* no 'error' listener, so the event is thrown as an uncaught exception and
\* the process ends.
StreamOpen(r) ==
    /\ alive
    /\ stream[r].state = "opening"
    /\ LET op == OpenFile(fs, stream[r].path)
       IN  IF op.code = "ok"
           THEN /\ stream' = [stream EXCEPT ![r].state = "flowing", ![r].node = op.node]
                /\ UNCHANGED alive
           ELSE /\ stream' = [stream EXCEPT ![r].state = "errored"]
                /\ alive' = FALSE
    /\ hs' = [hs EXCEPT ![r].accessed = @ \cup {stream[r].path}]
    /\ UNCHANGED <<fs, req, res>>

\* The stream reads its next chunk, which goes to the response, gzipped when
\* the gzip stage is there, unless the client is gone.
StreamData(r) ==
    /\ alive
    /\ stream[r].state = "flowing"
    /\ Flows(stream[r])
    /\ stream[r].pos < ReadLimit(stream[r])
    /\ LET st == stream[r]
           n  == Min(ReadLimit(st) - st.pos, HighWaterMark)
           c  == Chunk(IF st.gzip = "open" THEN "gzip" ELSE "bytes", st.node.content,
                       st.pos, st.pos + n, {})
       IN  /\ stream' = [stream EXCEPT ![r].pos = st.pos + n]
           /\ res' = IF res[r].closed THEN res
                     ELSE [res EXCEPT ![r].body = Append(@, c)]
    /\ UNCHANGED <<fs, alive, req, hs>>

\* The stream has read its last byte: it closes its file and ends what it is
\* piped to.  The gzip stage ends and closes once the response has taken its
\* output.
StreamEnd(r) ==
    /\ alive
    /\ stream[r].state = "flowing"
    /\ Flows(stream[r])
    /\ stream[r].pos >= ReadLimit(stream[r])
    /\ stream' = [stream EXCEPT ![r].state = "closed",
                                ![r].gzip = IF @ = "open" /\ ~res[r].closed THEN "closed" ELSE @]
    /\ res' = IF res[r].closed THEN res ELSE [res EXCEPT ![r].ended = TRUE]
    /\ UNCHANGED <<fs, alive, req, hs>>

\* The client closes its connection while the body is streamed: pipe()
\* detaches the response from its source and does nothing else.
ClientClose(r) ==
    /\ alive
    /\ stream[r].state \in {"opening", "flowing"}
    /\ ~res[r].closed
    /\ res' = [res EXCEPT ![r].closed = TRUE]
    /\ stream' = [stream EXCEPT ![r].piped = FALSE]
    /\ UNCHANGED <<fs, alive, req, hs>>

(***************************************************************************)
(* Another process changes the served files                                *)
(***************************************************************************)
Unlinkable == {PathA}

\* a request awaits a file-system call on p
Awaits(r, p) ==
    \/ hs[r].pc \in {"stat", "etag"} /\ StripTrailingSlash(hs[r].requestPath) = p
    \/ stream[r].state = "opening" /\ stream[r].path = p

\* A file is removed.  The removal is followed while a request awaits a call
\* on the file: before, it is a request for a missing file; after, nothing
\* reads the name again.
Unlink(p) ==
    /\ alive
    /\ fs[p].kind = "file"
    /\ \E r \in Requests : Awaits(r, p)
    /\ fs' = [fs EXCEPT ![p] = AbsentNode]
    /\ UNCHANGED <<alive, req, hs, res, stream>>

\* What another process can make of a served file: new content of the same
\* size with the modification time kept, the same content with a new
\* modification time, a shorter file, the file made unreadable.
Versions(p) ==
    IF p = PathA
    THEN {FileNode(3, 5000, "A1", "r"), FileNode(3, 6000, "A0", "r"), FileNode(1, 6000, "A2", "r")}
    ELSE {FileNode(HashLimit, 5000, "B1", "r"), FileNode(HashLimit, 6000, "B0", "r"),
          FileNode(HashLimit, 5000, "B0", "-")}

Writable == {PathA, PathB}

\* A file is written, once, while a request awaits a call on it.
Write(p) ==
    /\ alive
    /\ fs[p] = InitFs[p]
    /\ \E r \in Requests : Awaits(r, p)
    /\ \E v \in Versions(p) : fs' = [fs EXCEPT ![p] = v]
    /\ UNCHANGED <<alive, req, hs, res, stream>>

Next ==
    \/ \E r \in Requests : Arrive(r)
    \/ \E r \in Requests : StatDone(r)
    \/ \E r \in Requests : StatIndexDone(r)
    \/ \E r \in Requests : ReaddirDone(r)
    \/ \E r \in Requests : ETagDone(r)
    \/ \E r \in Requests : UnhandledRejection(r)
    \/ \E r \in Requests : StreamOpen(r)
    \/ \E r \in Requests : StreamData(r)
    \/ \E r \in Requests : StreamEnd(r)
    \/ \E r \in Requests : ClientClose(r)
    \/ \E p \in Unlinkable : Unlink(p)

Spec == Init /\ [][Next]_vars

\* the stream events of r: the event loop runs each of them once it is ready
StreamStep(r) == StreamOpen(r) \/ StreamData(r) \/ StreamEnd(r)

\* Two concurrent requests; every stream event that stays ready is eventually
\* run.  The clients and the other process (ClientClose, Unlink) may act or
\* not.
FairSpec == InitPairs /\ [][Next]_vars /\ \A r \in Requests : WF_vars(StreamStep(r))

NextRace ==
    \/ Next
    \/ \E p \in Writable : Write(p)

\* Two concurrent requests while another process removes and writes the
\* served files.
RaceSpec == InitRace /\ [][NextRace]_vars

(***************************************************************************)
(* Properties                                                              *)
(***************************************************************************)
\* the handler of r has finished
Finished(r) == hs[r].pc \in {"returned", "rejected", "failed"}

HeadWritten(r) == Len(res[r].heads) > 0

Status(r) == res[r].heads[1].status

SentHeaders(r) == res[r].heads[1].headers

\* p is the root directory or lies below it
Descendant(p) == StripTrailingSlash(p) = Root \/ IsPrefix(Root \o <<"/">>, p)

\* the target parses and decodes
Resolves(rq) ==
    /\ Len(rq.url) > 0 /\ rq.host = "ok"
    /\ UrlPathname(rq.url, rq.host).ok
    /\ DecodeURIComponent(UrlPathname(rq.url, rq.host).v).ok

\* the decoded and normalized path of a target that resolves
ResolvedPath(rq) == PathJoin(Root, DecodeURIComponent(UrlPathname(rq.url, rq.host).v).v)

\* C1 (as claimed): every path the handler stats, hashes, lists or streams is
\* the root or a true descendant of it, and a request whose decoded and
\* normalized path lies outside the root is answered 403 without any
\* file-system access.
C1_Containment ==
    \A r \in Requests :
        /\ \A p \in hs[r].accessed : Descendant(p)
        /\ (hs[r].pc \notin {"wire", "none"} /\ Resolves(req[r])
               /\ ~Descendant(ResolvedPath(req[r])))
           => (Finished(r) /\ Status(r) = 403 /\ hs[r].accessed = {})

\* C2 (as claimed): when the handler has finished, res.writeHead was called
\* exactly once, also when an exception was raised after the 200/206 head.
C2_ExactlyOneHead ==
    \A r \in Requests : Finished(r) => res[r].headCalls = 1

\* C3 (as claimed): whatever has failed in the requests handled so far, the
\* server process still runs, so every request that is in flight or still to
\* come is handled and answered.
C3_FailureIsolation ==
    \A r \in Requests : hs[r].pc # "none" => alive

\* the fields of a Range header: what stands before and after the first "-"
RangeFields(range) ==
    LET parts == SplitOn(StripUnit(range), "-")
    IN  [first |-> parts[1], second |-> IF Len(parts) >= 2 THEN parts[2] ELSE <<>>]

\* a field that is a decimal number
IsNumber(f) == Len(f) > 0 /\ \A i \in 1..Len(f) : f[i] \in Digits

NumberOf(f) == DigitRun(f, 0)

\* a numeric field that is not a number, or no number at all
MalformedRange(range) ==
    LET f == RangeFields(range)
    IN  \/ Len(f.first) > 0 /\ ~IsNumber(f.first)
        \/ Len(f.second) > 0 /\ ~IsNumber(f.second)
        \/ Len(f.first) = 0 /\ Len(f.second) = 0

\* a start or an end at or past the size
OutOfBoundsRange(range, size) ==
    LET f == RangeFields(range)
    IN  /\ IsNumber(f.first)
        /\ \/ NumberOf(f.first) >= size
           \/ IsNumber(f.second) /\ NumberOf(f.second) >= size

\* C4 (as claimed): when the cache check did not match, a Range header that
\* is out of bounds or malformed is answered 416 and opens no stream.
C4_RangeRejection ==
    \A r \in Requests :
        (hs[r].parsed /\ (MalformedRange(req[r].range[1])
                          \/ OutOfBoundsRange(req[r].range[1], hs[r].stats.size)))
        => (Status(r) = 416 /\ res[r].headCalls = 1 /\ stream[r].state = "none")

\* C5 (as claimed): every range parseRange returns, and sendRangeResponse
\* uses, satisfies 0 <= start <= end < size.
C5_ByteRangeInvariant ==
    \A r \in Requests :
        hs[r].parsed =>
            LET rv == ParseRange(req[r].range[1], hs[r].stats.size)
            IN  ~rv.null =>
                    /\ ~rv.start.nan /\ ~rv.end.nan
                    /\ 0 <= rv.start.n /\ rv.start.n <= rv.end.n
                    /\ rv.end.n < hs[r].stats.size

\* C6 (as claimed): a 206 head whose body is gzip output declares
\* Content-Encoding: gzip and not the length of the raw range.
C6_PartialCompressedFraming ==
    \A r \in Requests :
        (HeadWritten(r) /\ Status(r) = 206 /\ stream[r].gzip # "none") =>
            /\ "Content-Encoding" \in DOMAIN SentHeaders(r)
            /\ SentHeaders(r)["Content-Encoding"] = "gzip"
            /\ \/ "Content-Length" \notin DOMAIN SentHeaders(r)
               \/ SentHeaders(r)["Content-Length"] # ToString(stream[r].limit - stream[r].start)

\* a request without a target or a Host header, or whose target or host
\* cannot be parsed or decoded
MalformedUrl(rq) ==
    \/ Len(rq.url) = 0
    \/ rq.host \in {"missing", "bad"}
    \/ ~UrlPathname(rq.url, rq.host).ok
    \/ \E i \in 1..Len(rq.url) : rq.url[i] = "%ZZ"

\* C8 (as claimed): a malformed request is answered 403, never 500.
C8_MalformedUrl403 ==
    \A r \in Requests :
        (Finished(r) /\ MalformedUrl(req[r])) => Status(r) = 403

\* the fingerprint of a file as the stat of the request saw it
FingerprintOf(node) ==
    IF node.size < HashLimit THEN ContentETag(node.content)
    ELSE StatsETag(node.size, node.mtime)

\* 304, an empty body, and neither range parsing nor a content stream
NotModified(r) ==
    /\ Status(r) = 304 /\ res[r].headCalls = 1
    /\ res[r].body = <<>> /\ res[r].ended
    /\ ~hs[r].parsed
    /\ stream[r] = NoStream

\* C7 (as claimed): a request that resolves to an existing file and whose
\* If-None-Match equals the file's fingerprint, or whose If-Modified-Since
\* equals its formatted modification time, is always answered 304 with an
\* empty body, without range parsing, compression or a content stream.
C7_CacheShortCircuit ==
    \A r \in Requests :
        (Finished(r) /\ hs[r].stats.kind = "file"
            /\ (\/ req[r].inm = Some(FingerprintOf(hs[r].stats))
                \/ req[r].ims = Some(ToUTCString(hs[r].stats.mtime))))
        => NotModified(r)

\* C7 (amended): the same, for the requests whose fingerprint getETag
\* could compute (the content read of a file under 1 MiB succeeded).
C7_CacheShortCircuitOnceFingerprinted ==
    \A r \in Requests :
        (Finished(r) /\ hs[r].etag # Absent
            /\ (\/ req[r].inm = hs[r].etag
                \/ req[r].ims = Some(ToUTCString(hs[r].stats.mtime))))
        => NotModified(r)

\* a 304 on If-Modified-Since alone, for a request with Range and gzip
C7_Witness ==
    \E r \in Requests :
        /\ Finished(r) /\ HeadWritten(r) /\ Status(r) = 304
        /\ req[r].inm = Absent /\ req[r].ims = Some(ToUTCString(hs[r].stats.mtime))
        /\ HasRange(req[r]) /\ IncludesGzip(req[r].ae)

\* the read stream is closed and the gzip stage, if any, is closed too
Released(r) == stream[r].state \in {"closed", "errored"} /\ stream[r].gzip # "open"

\* C9 (as claimed): once the client has closed its connection during a 200 or
\* 206 body, the read stream and the gzip stage are eventually closed (or the
\* process has ended).
C9_CancellationCleanup ==
    \A r \in Requests : (res[r].closed /\ alive) ~> (Released(r) \/ ~alive)

\* the range a header 'bytes=<start>-<end>' names on a file of the given
\* size, when it is in bounds: (start, end), (start, size-1) without an end,
\* the last k bytes for 'bytes=-k'
ClaimedRange(range, size) ==
    LET f == RangeFields(range)
        wellFormed == /\ Len(range) >= 1 /\ range[1] = "bytes="
                      /\ Len(SplitOn(Tail(range), "-")) = 2
        a == NumberOf(f.first)
        b == NumberOf(f.second)
    IN  IF wellFormed /\ IsNumber(f.first) /\ IsNumber(f.second) /\ a <= b /\ b < size
        THEN [ok |-> TRUE, s |-> a, e |-> b]
        ELSE IF wellFormed /\ IsNumber(f.first) /\ Len(f.second) = 0 /\ a < size
        THEN [ok |-> TRUE, s |-> a, e |-> size - 1]
        ELSE IF wellFormed /\ Len(f.first) = 0 /\ IsNumber(f.second) /\ 1 <= b /\ b <= size
        THEN [ok |-> TRUE, s |-> size - b, e |-> size - 1]
        ELSE [ok |-> FALSE, s |-> 0, e |-> 0]

\* the chunks of the body are consecutive bytes of the opened file from lo on
BodyFrom(r, lo) ==
    \A i \in 1..Len(res[r].body) :
        /\ res[r].body[i].text = stream[r].node.content
        /\ res[r].body[i].lo = (IF i = 1 THEN lo ELSE res[r].body[i - 1].hi)
        /\ res[r].body[i].lo < res[r].body[i].hi

\* C10: for an in-bounds Range header on a file of size N whose cache check
\* did not match, the head is 206 with Content-Range: bytes s-e/N and
\* Content-Length e-s+1, and the byte source is bytes s..e of the file.
C10_RangeCorrectness ==
    \A r \in Requests :
        hs[r].parsed =>
            LET n  == hs[r].stats.size
                cr == ClaimedRange(req[r].range[1], n)
            IN  cr.ok =>
                    /\ Status(r) = 206 /\ res[r].headCalls = 1
                    /\ SentHeaders(r)["Content-Range"] =
                           <<"bytes ", ToString(cr.s), "-", ToString(cr.e), "/", ToString(n)>>
                    /\ SentHeaders(r)["Content-Length"] = ToString(cr.e - cr.s + 1)
                    /\ stream[r].path = hs[r].requestPath
                    /\ stream[r].start = cr.s /\ stream[r].limit = cr.e + 1
                    /\ BodyFrom(r, cr.s)
                    /\ (res[r].ended /\ ~res[r].closed) =>
                           /\ Len(res[r].body) > 0
                           /\ Last(res[r].body).hi = cr.e + 1

\* a completed 206 for the suffix form
C10_Witness ==
    \E r \in Requests :
        /\ hs[r].parsed /\ HeadWritten(r) /\ Status(r) = 206
        /\ ClaimedRange(req[r].range[1], hs[r].stats.size).ok
        /\ Len(RangeFields(req[r].range[1]).first) = 0
        /\ res[r].ended /\ Len(res[r].body) > 0

\* the Accept-Encoding header lists gzip as acceptable: the coding is named
\* and its weight is not zero
DeclaresGzip(acceptEncoding) ==
    /\ acceptEncoding # Absent
    /\ \E i \in 1..Len(acceptEncoding[1]) :
          /\ acceptEncoding[1][i] = "gzip"
          /\ ~(i < Len(acceptEncoding[1]) /\ acceptEncoding[1][i + 1] = ";q=0")

\* the response of r is compressed: a gzip stage feeds it, or a chunk of its
\* body is gzip output, or its head declares the encoding
Compressed(r) ==
    \/ stream[r].gzip # "none"
    \/ \E i \in 1..Len(res[r].body) : res[r].body[i].kind = "gzip"
    \/ HeadWritten(r) /\ "Content-Encoding" \in DOMAIN SentHeaders(r)

\* C11 (as claimed): a response is compressed only if the request's
\* Accept-Encoding declares gzip as acceptable and the extension of the
\* effective file is in the allow-list, and only a 200 or 206 file response
\* is ever compressed.
C11_CompressionGating ==
    \A r \in Requests :
        Compressed(r) =>
            /\ DeclaresGzip(req[r].ae)
            /\ ToLowerCase(ExtName(hs[r].requestPath)) \in CompressibleExtensions
            /\ HeadWritten(r) /\ Status(r) \in {200, 206}

\* the one response rs holds has the given status
Answered(rs, status) == Len(rs.heads) = 1 /\ rs.heads[1].status = status

\* 500 with the generic body
GenericError(rs) ==
    /\ Answered(rs, 500) /\ rs.headCalls = 1
    /\ rs.body = <<TextChunk("500 Internal Server Error")>> /\ rs.ended

\* C12: in the step that completes a probe, a stat of the path that fails
\* with "not found" gives 404 and a probe of the index file that fails with
\* "not found" goes on to the directory listing without a response, while a
\* stat, an index probe or a content-hash read that fails with any other
\* error gives 500 with the generic body.
C12_ProbeClassification ==
    [][\A r \in Requests :
          /\ (hs[r].pc = "stat" /\ hs'[r].pc # "stat") =>
                LET st == Stat(fs, hs[r].requestPath)
                IN  /\ st.code = "ENOENT" => Answered(res'[r], 404)
                    /\ st.code \notin {"ok", "ENOENT"} => GenericError(res'[r])
                    /\ st.code = "ok" => res'[r] = res[r]
          /\ (hs[r].pc = "statIndex" /\ hs'[r].pc # "statIndex") =>
                LET st == Stat(fs, IndexFilePath(hs[r].requestPath))
                IN  /\ st.code = "ENOENT" => (hs'[r].pc = "readdir" /\ res'[r] = res[r])
                    /\ st.code \notin {"ok", "ENOENT"} => GenericError(res'[r])
          /\ (hs[r].pc = "etag" /\ hs'[r].pc # "etag") =>
                LET rd == OpenFile(fs, hs[r].requestPath)
                IN  (hs[r].stats.size < HashLimit /\ rd.code \notin {"ok", "ENOENT"})
                        => GenericError(res'[r])
      ]_vars

\* the probe of the index file of a directory that cannot be searched has
\* failed with EACCES and the request is answered 500
C12_Witness ==
    \E r \in Requests :
        /\ hs[r].pc = "returned" /\ hs[r].stats.kind = "dir"
        /\ Stat(fs, IndexFilePath(hs[r].requestPath)).code = "EACCES"
        /\ IndexFilePath(hs[r].requestPath) \in hs[r].accessed
        /\ GenericError(res[r])

\* r1 asks for the directory w and r2 for its index file, with the same
\* headers
IndexPair(r1, r2) ==
    /\ req[r1].sent /\ req[r2].sent
    /\ req[r1].url \in {UrlW, UrlWSlash} /\ req[r2].url = UrlWIndex
    /\ req[r1].host = req[r2].host /\ req[r1].range = req[r2].range
    /\ req[r1].inm = req[r2].inm /\ req[r1].ims = req[r2].ims
    /\ req[r1].ae = req[r2].ae

\* the whole response of r has been written and the client has taken it
Complete(r) ==
    /\ hs[r].pc = "returned" /\ res[r].ended /\ ~res[r].closed
    /\ stream[r].state \in {"none", "closed"}

\* C13: a request for a directory that holds the index file gives the same
\* head (status and headers) and the same body as the same request made for
\* the index file, and size, modification time, fingerprint, Content-Type and
\* Cache-Control are those of the index file.
C13_IndexEquivalence ==
    \A r1, r2 \in Requests :
        IndexPair(r1, r2) =>
            /\ (Finished(r1) /\ Finished(r2)) =>
                  /\ res[r1].heads = res[r2].heads
                  /\ res[r1].headCalls = res[r2].headCalls
            /\ (Complete(r1) /\ Complete(r2)) => res[r1].body = res[r2].body
            /\ Finished(r1) =>
                  /\ hs[r1].requestPath = PathWIndex
                  /\ hs[r1].stats = fs[PathWIndex]
                  /\ (Status(r1) \in {200, 206}) =>
                        /\ SentHeaders(r1)["ETag"] = FingerprintOf(fs[PathWIndex])
                        /\ SentHeaders(r1)["Last-Modified"] = ToUTCString(fs[PathWIndex].mtime)
                        /\ SentHeaders(r1)["Content-Type"] = "text/html"
                        /\ SentHeaders(r1)["Cache-Control"] = "no-cache, must-revalidate"
                  /\ (Status(r1) = 200 /\ "Content-Length" \in DOMAIN SentHeaders(r1)) =>
                        SentHeaders(r1)["Content-Length"] = ToString(fs[PathWIndex].size)

\* both requests of a pair are answered 200 with the bytes of the index file
C13_Witness ==
    \E r1, r2 \in Requests :
        /\ IndexPair(r1, r2) /\ Complete(r1) /\ Complete(r2)
        /\ Status(r1) = 200 /\ Len(res[r1].body) > 0
        /\ res[r1].body[1].text = fs[PathWIndex].content

\* the token that opens an anchor, the token that closes its href attribute
AnchorOpen == "<a href=\""

AttributeClose == "\">"

\* the place of the first tok in text at or after i, Len(text) + 1 when
\* there is none
NextIndex(text, i, tok) ==
    CHOOSE j \in i..(Len(text) + 1) :
        /\ j = Len(text) + 1 \/ text[j] = tok
        /\ \A k \in i..(j - 1) : text[k] # tok

\* the places where an anchor opens in a text
AnchorStarts(text) == {i \in 1..Len(text) : text[i] = AnchorOpen}

\* the anchors a browser reads in a text: href up to the end of the
\* attribute, text up to the closing tag
AnchorsOf(text) ==
    { LET q == NextIndex(text, i + 1, AttributeClose)
          e == NextIndex(text, q + 1, "</a>")
      IN  [href |-> SubSeq(text, i + 1, q - 1), text |-> SubSeq(text, q + 1, e - 1)] :
      i \in AnchorStarts(text) }

PageAnchors(page) == UNION {AnchorsOf(it) : it \in page.items}

AnchorCount(page) ==
    Cardinality(UNION {{<<it, i>> : i \in AnchorStarts(it)} : it \in page.items})

FullResponse(r) ==
    /\ Finished(r) /\ HeadWritten(r)
    /\ req[r].range = Absent
    /\ Status(r) \notin {304, 403, 404, 416, 500}

\* 200, with Content-Length equal to the stat size and no Content-Encoding
\* when compression does not apply, with Content-Encoding: gzip and no
\* Content-Length when it applies
FullFraming(r) ==
    /\ Status(r) = 200
    /\ IF ShouldCompress(req[r].ae, hs[r].requestPath)
       THEN /\ "Content-Encoding" \in DOMAIN SentHeaders(r)
            /\ SentHeaders(r)["Content-Encoding"] = "gzip"
            /\ "Content-Length" \notin DOMAIN SentHeaders(r)
            /\ stream[r].gzip # "none"
       ELSE /\ "Content-Length" \in DOMAIN SentHeaders(r)
            /\ SentHeaders(r)["Content-Length"] = ToString(hs[r].stats.size)
            /\ "Content-Encoding" \notin DOMAIN SentHeaders(r)
            /\ stream[r].gzip = "none"

\* C15 (as claimed): every full response is framed so.
C15_FullResponseFraming ==
    \A r \in Requests : FullResponse(r) => FullFraming(r)

\* C15 (amended): every full response that serves a file (the file asked
\* for, or the index file of a directory) is framed so; a directory listing
\* is a 200 without Content-Length.
C15_FullFileResponseFraming ==
    \A r \in Requests :
        /\ (FullResponse(r) /\ hs[r].stats.kind = "file") => FullFraming(r)
        /\ (FullResponse(r) /\ hs[r].stats.kind # "file") =>
               /\ Status(r) = 200
               /\ DOMAIN SentHeaders(r) = {"Content-Type"}

\* a compressed and an uncompressed full response of a file
C15_Witness ==
    \E r \in Requests :
        /\ FullResponse(r) /\ hs[r].stats.kind = "file" /\ Complete(r)
        /\ ShouldCompress(req[r].ae, hs[r].requestPath)
        /\ "Content-Encoding" \in DOMAIN SentHeaders(r)

\* the fingerprint of the file at path as the file system was at the start
ReferenceETag(path) == GetETag(InitFs, path, InitFs[path]).v

\* C16: in the step in which getETag returns, compared with the fingerprint
\* of the same file before any write: under 1 MiB the two are equal exactly
\* when the content read is the same, whatever the modification times; from
\* 1 MiB on they are equal exactly when size and modification time of the
\* stat are the same, and the fingerprint is there although the content
\* cannot be read.
C16_FingerprintDependence ==
    [][\A r \in Requests :
          (hs[r].pc = "etag" /\ hs'[r].pc # "etag") =>
              LET path  == hs[r].requestPath
                  stats == hs[r].stats
                  ref   == InitFs[path]
              IN  IF stats.size < HashLimit
                  THEN hs'[r].etag # Absent =>
                          (hs'[r].etag[1] = ReferenceETag(path)
                              <=> fs[path].content = ref.content)
                  ELSE /\ hs'[r].etag # Absent
                       /\ hs'[r].etag[1] = ReferenceETag(path)
                              <=> (stats.size = ref.size /\ stats.mtime = ref.mtime)
      ]_vars

\* a fingerprint of new content under the old modification time, and one of
\* a large file whose content cannot be read
C16_Witness ==
    \E r1, r2 \in Requests :
        /\ hs[r1].requestPath = PathA /\ hs[r1].etag = Some(ContentETag("A1"))
        /\ hs[r1].stats.mtime = InitFs[PathA].mtime
        /\ hs[r2].requestPath = PathB /\ hs[r2].etag # Absent
        /\ fs[PathB].mode = "-"

\* C17 (as claimed): once the stream of a 200 or 206 response has opened the
\* file, the ETag, Last-Modified, Content-Length and Content-Range of the
\* head are those of the version the body is read from.
C17_SingleVersionResponse ==
    \A r \in Requests :
        (HeadWritten(r) /\ Status(r) \in {200, 206}
            /\ stream[r].state \in {"flowing", "closed"}) =>
            LET node == stream[r].node
                h    == SentHeaders(r)
            IN  /\ h["ETag"] = FingerprintOf(node)
                /\ h["Last-Modified"] = ToUTCString(node.mtime)
                /\ (Status(r) = 200 /\ "Content-Length" \in DOMAIN h) =>
                       h["Content-Length"] = ToString(node.size)
                /\ Status(r) = 206 => Last(h["Content-Range"]) = ToString(node.size)

====
